---- MODULE Spec2Model ----
(***************************************************************************)
(* Model of the three Bezier editors of the repository:                    *)
(*   multi.py  the chain editor (CurveManager: anchors, derived segments), *)
(*   all.py    the role-tracking point editor (Point with two offset       *)
(*             handles, MainWindow.points),                                *)
(*   self.py   the fixed single curve.                                     *)
(* Each is a program of its own; `app` says which one is running.          *)
(*                                                                         *)
(* Graphics items are objects with identity: every item gets a fresh id    *)
(* from nextId.  Positions are pairs <<x, y>>.  QGraphicsItem.setPos is    *)
(* modelled by what Qt does: nothing when the position is the current one, *)
(* otherwise itemChange(ItemPositionChange, value) is delivered BEFORE the *)
(* position is stored (pos() still answers the old position inside the     *)
(* slots), and the value itemChange returns becomes the position.          *)
(***************************************************************************)
EXTENDS Integers, Sequences, FiniteSets, TLC

VARIABLES
    app,        \* which program runs: "multi", "all" or "self"
    points,     \* multi.py CurveManager.points / all.py MainWindow.points
    segments,   \* multi.py CurveManager.segments (self.py: the one curve)
    scene,      \* ids of the items in the QGraphicsScene
    pos,        \* item id -> QGraphicsItem.pos()
    is_anchor,  \* multi.py DraggablePointItem.is_anchor
    curveItem,  \* BezierCurveItem id -> its four points and its path
    lineItem,   \* ControlLineItem / ControlLine id -> its two points and its line
    connected,  \* multi.py/self.py: points whose moved signal reaches update_graphics
    pointObj,   \* all.py Point id -> its fields
    visible,    \* all.py item id -> isVisible()
    nextId,     \* next fresh object id
    err,        \* exception raised by the last call ("none" when it returned)
    last,       \* the last call: its name, arguments and what it found
    adds,       \* number of add requests so far
    moves       \* number of move requests so far

vars == <<app, points, segments, scene, pos, is_anchor, curveItem, lineItem,
          connected, pointObj, visible, nextId, err, last, adds, moves>>

\* ---------------------------------------------------------------- bounds

MaxAdds == 3
MaxMoves == 2

\* The scene position of the next click on an empty place: the k-th click lands in
\* the k-th column, so no click lands on an item that is already there.
ClickPositions == {<<100 + 200 * adds, 100>>}

\* The scene positions a drag may take an item to.
MoveTargets == {<<120, 80>>}

\* ------------------------------------------------------------- helpers

Vec(a, dx, dy) == <<a[1] + dx, a[2] + dy>>

Max(a, b) == IF a >= b THEN a ELSE b

\* list.index: the first position of e in s (1-based), 0 when absent
IndexOf(s, e) ==
    IF \E i \in 1..Len(s) : s[i] = e
    THEN CHOOSE i \in 1..Len(s) : s[i] = e /\ \A j \in 1..(i - 1) : s[j] # e
    ELSE 0

\* list.pop(i - 1): s without its i-th element (1-based)
RemoveAt(s, i) == [j \in 1..(Len(s) - 1) |-> IF j < i THEN s[j] ELSE s[j + 1]]

\* list.insert(i - 1, e)
InsertAt(s, i, e) ==
    [j \in 1..(Len(s) + 1) |-> IF j < i THEN s[j] ELSE IF j = i THEN e ELSE s[j - 1]]

\* list.remove(e): s without the first occurrence of e
RemoveFirst(s, e) == IF IndexOf(s, e) = 0 THEN s ELSE RemoveAt(s, IndexOf(s, e))

\* The record of a call: op its name, id and p the item and position it was given
\* (moves, releases, adds), idx the (0-based) index of the anchor it found or made
\* (-1: not in the list), n the number of anchors before it, again whether it
\* repeats the call before it.
NoCall == [op |-> "init", id |-> 0, p |-> <<0, 0>>, idx |-> 0, n |-> 0, again |-> FALSE]

\* --------------------------------------------------- items (all three files)

\* BezierCurveItem.update_path: the cubic through the four points' current pos()
UpdatePath(c, ps) ==
    [c EXCEPT !.path = <<ps[c.start_point], ps[c.control_one],
                         ps[c.control_two], ps[c.end_point]>>]

\* ControlLineItem.update_line: the line between the two points' current pos()
UpdateLine(l, ps) == [l EXCEPT !.line = <<ps[l.start_point], ps[l.end_point]>>]

\* BezierCurveItem.__init__: stores the four points, then update_path()
NewCurve(sp, c1, c2, ep, ps) ==
    UpdatePath([start_point |-> sp, control_one |-> c1, control_two |-> c2,
                end_point |-> ep, path |-> <<>>], ps)

\* ControlLineItem.__init__: stores the two points, then update_line()
NewLine(sp, ep, ps) == UpdateLine([start_point |-> sp, end_point |-> ep, line |-> <<>>], ps)

\* update_graphics: update_path of every segment's curve
UpdateCurves(segs, ps, cv) ==
    [c \in DOMAIN cv |->
        IF \E i \in 1..Len(segs) : segs[i].curve = c THEN UpdatePath(cv[c], ps) ELSE cv[c]]

\* update_graphics: update_line of every segment's two guide lines
UpdateLines(segs, ps, ln) ==
    [l \in DOMAIN ln |->
        IF \E i \in 1..Len(segs) : segs[i].line_one = l \/ segs[i].line_two = l
        THEN UpdateLine(ln[l], ps) ELSE ln[l]]

\* The five scene items of a segment besides its two anchors
SegmentItems(s) == {s.curve, s.control_one, s.line_one, s.control_two, s.line_two}

\* Mutant of ItemChangeResult: itemChange hands back an adjusted position
ItemChangeShifted(value) == Vec(value, 1, 1)

\* What itemChange hands back to setPos: super().itemChange(change, value)
ItemChangeResult(value) == value

\* scene.itemAt(scene_pos): the point items drawn at exactly p
ItemAt(p) == {i \in scene \cap DOMAIN pos : pos[i] = p /\ (i \in DOMAIN visible => visible[i])}

\* ------------------------------------------------------ multi.py CurveManager

\* add_point, first segment: control_one at start + (50, 50)
DefaultControlOne(a) == Vec(a, 50, 50)

\* Mutant of DefaultControlTwo: the y offset with the wrong sign
DefaultControlTwoUp(e) == Vec(e, -50, -50)

\* add_point: control_two at end + (-50, +50)
DefaultControlTwo(e) == Vec(e, -50, 50)

\* Mutant of MirrorPos: the handle is copied relative to the anchor, not reflected
MirrorPosSameSide(a, h) == <<a[1] + (h[1] - a[1]), a[2] + (h[2] - a[2])>>

\* add_point, later segments: the last control_two mirrored through start_point
MirrorPos(a, h) == <<a[1] - (h[1] - a[1]), a[2] - (h[2] - a[2])>>

\* add_point: where the new segment's control_one goes
ControlOnePos(segs, ps, sp) ==
    IF segs = <<>> THEN DefaultControlOne(ps[sp])
    ELSE MirrorPos(ps[sp], ps[segs[Len(segs)].control_two])

\* Mutant of SegmentDict: the new segment takes the last segment's end handle as
\* its own start handle instead of a new item
SegmentDictSharedHandle(sp, ep, base) ==
    [curve |-> base + 2, start_point |-> sp,
     control_one |-> IF segments # <<>> THEN segments[Len(segments)].control_two ELSE base,
     control_two |-> base + 1, end_point |-> ep,
     line_one |-> base + 3, line_two |-> base + 4]

\* The segment dict built from ids base .. base + 4
SegmentDict(sp, ep, base) ==
    [curve |-> base + 2, start_point |-> sp, control_one |-> base,
     control_two |-> base + 1, end_point |-> ep,
     line_one |-> base + 3, line_two |-> base + 4]

\* Mutant of AppendPoint: the new anchor goes to the front of the list
AppendPointInFront(pts, a) == <<a>> \o pts

\* add_point: self.points.append(new_anchor)
AppendPoint(pts, a) == Append(pts, a)

AddPoint(p) ==
    /\ app = "multi"
    /\ adds < MaxAdds
    /\ ItemAt(p) = {}
    /\ LET new_anchor == nextId
           points1 == AppendPoint(points, new_anchor)
           pos1 == pos @@ (new_anchor :> p)
       IN  /\ points' = points1
           /\ is_anchor' = is_anchor @@ (new_anchor :> TRUE)
           /\ IF Len(points1) > 1
              THEN LET sp == points1[Len(points1) - 1]
                       seg == SegmentDict(sp, new_anchor, nextId + 1)
                       pos2 == pos1 @@ (seg.control_one :> ControlOnePos(segments, pos1, sp))
                                    @@ (seg.control_two :> DefaultControlTwo(pos1[new_anchor]))
                       segs == Append(segments, seg)
                       cv == curveItem @@ (seg.curve :>
                                NewCurve(sp, seg.control_one, seg.control_two, new_anchor, pos2))
                       ln == lineItem @@ (seg.line_one :> NewLine(sp, seg.control_one, pos2))
                                      @@ (seg.line_two :> NewLine(new_anchor, seg.control_two, pos2))
                   IN  /\ pos' = pos2
                       /\ segments' = segs
                       /\ scene' = scene \cup {new_anchor} \cup SegmentItems(seg)
                       /\ connected' = connected \cup {sp, new_anchor, seg.control_one, seg.control_two}
                       /\ curveItem' = UpdateCurves(segs, pos2, cv)
                       /\ lineItem' = UpdateLines(segs, pos2, ln)
                       /\ nextId' = nextId + 6
              ELSE /\ pos' = pos1
                   /\ scene' = scene \cup {new_anchor}
                   /\ curveItem' = UpdateCurves(segments, pos1, curveItem)
                   /\ lineItem' = UpdateLines(segments, pos1, lineItem)
                   /\ nextId' = nextId + 1
                   /\ UNCHANGED <<segments, connected>>
    /\ err' = "none"
    /\ adds' = adds + 1
    /\ last' = [op |-> "add", id |-> nextId, p |-> p, idx |-> Len(points) + 1,
                n |-> Len(points), again |-> FALSE]
    /\ UNCHANGED <<app, pointObj, visible, moves>>

\* Mutant of RemoveGuard: only the empty chain is refused
RemoveGuardEmptyOnly(n) == n < 1

\* remove_point: "if len(self.points) <= 1: return"
RemoveGuard(n) == n <= 1

\* remove_point: list.pop raises IndexError on an index outside the list
PopFails(segs, k, n) ==
    IF k = 0 THEN FALSE
    ELSE IF k = n - 1 THEN segs = <<>>
    ELSE k + 1 > Len(segs)

\* Mutant of PopSegments: a middle point loses only the segment after it
PopSegmentsOnlyAfter(segs, k, n) ==
    IF k = 0
    THEN IF Len(segs) > 0 THEN [popped |-> {segs[1]}, rest |-> Tail(segs)]
         ELSE [popped |-> {}, rest |-> segs]
    ELSE IF k = n - 1
    THEN [popped |-> {segs[Len(segs)]}, rest |-> SubSeq(segs, 1, Len(segs) - 1)]
    ELSE [popped |-> {segs[k + 1]}, rest |-> RemoveAt(segs, k + 1)]

\* Mutant of PopSegments: the first point pops the last segment (pop() for pop(0))
PopSegmentsFirstPopsLast(segs, k, n) ==
    IF k = 0
    THEN IF Len(segs) > 0
         THEN [popped |-> {segs[Len(segs)]}, rest |-> SubSeq(segs, 1, Len(segs) - 1)]
         ELSE [popped |-> {}, rest |-> segs]
    ELSE IF k = n - 1
    THEN [popped |-> {segs[Len(segs)]}, rest |-> SubSeq(segs, 1, Len(segs) - 1)]
    ELSE [popped |-> {segs[k + 1], segs[k]},
          rest |-> RemoveAt(RemoveAt(segs, k + 1), k)]

\* Mutant of PopSegments: the last point pops the first segment (pop(0) for pop())
PopSegmentsLastPopsFirst(segs, k, n) ==
    IF k = 0
    THEN IF Len(segs) > 0 THEN [popped |-> {segs[1]}, rest |-> Tail(segs)]
         ELSE [popped |-> {}, rest |-> segs]
    ELSE IF k = n - 1
    THEN [popped |-> {segs[1]}, rest |-> Tail(segs)]
    ELSE [popped |-> {segs[k + 1], segs[k]},
          rest |-> RemoveAt(RemoveAt(segs, k + 1), k)]

\* Mutant of PopSegments: the segments leave the list but their items are not
\* taken out of the scene
PopSegmentsKeepsItems(segs, k, n) ==
    IF k = 0
    THEN IF Len(segs) > 0 THEN [popped |-> {}, rest |-> Tail(segs)]
         ELSE [popped |-> {}, rest |-> segs]
    ELSE IF k = n - 1
    THEN [popped |-> {}, rest |-> SubSeq(segs, 1, Len(segs) - 1)]
    ELSE [popped |-> {}, rest |-> RemoveAt(RemoveAt(segs, k + 1), k)]

\* remove_point: the segments popped for the anchor at (0-based) index k of n,
\* and the list that is left
PopSegments(segs, k, n) ==
    IF k = 0
    THEN IF Len(segs) > 0 THEN [popped |-> {segs[1]}, rest |-> Tail(segs)]
         ELSE [popped |-> {}, rest |-> segs]
    ELSE IF k = n - 1
    THEN [popped |-> {segs[Len(segs)]}, rest |-> SubSeq(segs, 1, Len(segs) - 1)]
    ELSE [popped |-> {segs[k + 1], segs[k]},
          rest |-> RemoveAt(RemoveAt(segs, k + 1), k)]

\* Mutant of ReplacementControlOne: the replacement keeps the place of the deleted
\* control_one of the segment that started at sp
ReplacementControlOneKept(sp) ==
    LET olds == {j \in 1..Len(segments) : segments[j].start_point = sp}
    IN  IF olds = {} THEN Vec(pos[sp], 50, 50)
        ELSE pos[segments[CHOOSE j \in olds : TRUE].control_one]

\* remove_point, middle point: the replacement's control_one at start + (50, 50)
ReplacementControlOne(sp) == Vec(pos[sp], 50, 50)

\* remove_point, middle point: the replacement's control_two at end + (-50, +50)
ReplacementControlTwo(ep) == Vec(pos[ep], -50, 50)

\* remove_point, middle point: self.segments.insert(point_index - 1, {...})
InsertReplacement(rest, k, seg) == InsertAt(rest, k, seg)

RemovePoint(a) ==
    /\ app = "multi"
    /\ a \in DOMAIN is_anchor
    /\ LET n == Len(points)
           k == IndexOf(points, a) - 1
       IN  /\ last' = [op |-> "remove", id |-> 0, p |-> <<0, 0>>, idx |-> k, n |-> n,
                       again |-> FALSE]
           /\ IF RemoveGuard(n)
              THEN /\ err' = "none"
                   /\ UNCHANGED <<points, segments, scene, pos, curveItem, lineItem,
                                  connected, nextId>>
              ELSE IF k < 0
              THEN /\ err' = "ValueError"
                   /\ UNCHANGED <<points, segments, scene, pos, curveItem, lineItem,
                                  connected, nextId>>
              ELSE IF PopFails(segments, k, n)
              THEN /\ err' = "IndexError"
                   /\ UNCHANGED <<points, segments, scene, pos, curveItem, lineItem,
                                  connected, nextId>>
              ELSE LET popd == PopSegments(segments, k, n)
                       gone == UNION {SegmentItems(s) : s \in popd.popped}
                       middle == k # 0 /\ k # n - 1
                   IN  /\ err' = "none"
                       /\ points' = RemoveFirst(points, a)
                       /\ IF middle
                          THEN LET sp == points[k]
                                   ep == points[k + 2]
                                   seg == SegmentDict(sp, ep, nextId)
                                   pos2 == pos @@ (seg.control_one :> ReplacementControlOne(sp))
                                               @@ (seg.control_two :> ReplacementControlTwo(ep))
                                   segs == InsertReplacement(popd.rest, k, seg)
                                   cv == curveItem @@ (seg.curve :>
                                           NewCurve(sp, seg.control_one, seg.control_two, ep, pos2))
                                   ln == lineItem
                                           @@ (seg.line_one :> NewLine(sp, seg.control_one, pos2))
                                           @@ (seg.line_two :> NewLine(ep, seg.control_two, pos2))
                               IN  /\ pos' = pos2
                                   /\ segments' = segs
                                   /\ scene' = ((scene \ gone) \cup SegmentItems(seg)) \ {a}
                                   /\ connected' = connected \cup
                                                     {sp, ep, seg.control_one, seg.control_two}
                                   /\ curveItem' = UpdateCurves(segs, pos2, cv)
                                   /\ lineItem' = UpdateLines(segs, pos2, ln)
                                   /\ nextId' = nextId + 5
                          ELSE /\ segments' = popd.rest
                               /\ scene' = (scene \ gone) \ {a}
                               /\ curveItem' = UpdateCurves(popd.rest, pos, curveItem)
                               /\ lineItem' = UpdateLines(popd.rest, pos, lineItem)
                               /\ UNCHANGED <<pos, connected, nextId>>
    /\ UNCHANGED <<app, is_anchor, pointObj, visible, adds, moves>>

\* ------------------------------------- multi.py / self.py DraggablePointItem

\* Mutant of StorePos: the handles on an anchor are carried along with it
StorePosWithHandles(ps, i, v) ==
    [j \in DOMAIN ps |->
        IF j = i THEN v
        ELSE IF \E k \in 1..Len(segments) :
                   \/ segments[k].start_point = i /\ segments[k].control_one = j
                   \/ segments[k].end_point = i /\ segments[k].control_two = j
        THEN Vec(ps[j], v[1] - ps[i][1], v[2] - ps[i][2])
        ELSE ps[j]]

\* The drag's setPos stores the value itemChange handed back as the position of
\* the dragged item; no slot of multi.py or self.py calls setPos on another item
StorePos(ps, i, v) == [ps EXCEPT ![i] = v]

\* A drag of item i to p: setPos(p).  ItemPositionChange reaches the moved signal's
\* slots (update_graphics) while pos() is still the old position.
MovePoint(i, p) ==
    /\ app \in {"multi", "self"}
    /\ i \in scene \cap DOMAIN pos
    /\ moves < MaxMoves
    /\ IF pos[i] = p
       THEN UNCHANGED <<pos, curveItem, lineItem>>
       ELSE /\ curveItem' = IF i \in connected
                            THEN UpdateCurves(segments, pos, curveItem) ELSE curveItem
            /\ lineItem' = IF i \in connected
                           THEN UpdateLines(segments, pos, lineItem) ELSE lineItem
            /\ pos' = StorePos(pos, i, ItemChangeResult(p))
    /\ moves' = moves + 1
    /\ err' = "none"
    /\ last' = [op |-> "move", id |-> i, p |-> p, idx |-> 0, n |-> Len(points),
                again |-> last.op = "move" /\ last.id = i /\ last.p = p]
    /\ UNCHANGED <<app, points, segments, scene, is_anchor, connected, pointObj,
                   visible, nextId, adds>>

\* ------------------------------------------------- all.py Point, MainWindow

\* Mutant of ShowC1: c1 and its line are hidden for "only" alone
ShowC1UnlessOnly(status) == status # "only"

\* Point.display_control_points: c1 and its line show unless "only" or "last"
ShowC1(status) == status # "only" /\ status # "last"

\* Point.display_control_points: c2 and its line show unless "only" or "first"
ShowC2(status) == status # "only" /\ status # "first"

\* Point.display_control_points: setVisible of the handle or line i of the Point
\* object o, whose status is st
DisplayControlPoint(i, o, st) == IF i \in {o.c1, o.c1_line} THEN ShowC1(st) ELSE ShowC2(st)

\* MainWindow.on_mouse_press: the status each Point has after the new one is set up
StatusAfterAdd(pts, o, new) ==
    IF Len(pts) = 0 THEN "only"
    ELSE IF o = new THEN "last"
    ELSE IF o = pts[1] THEN "first"
    ELSE "center"

\* Point.__init__ and Point.setup: the Point object with id o, its items o+1 .. o+5
NewPointObj(o, p) ==
    [x |-> p[1], y |-> p[2], point |-> o + 1, c1 |-> o + 2, c2 |-> o + 3,
     c1_line |-> o + 4, c2_line |-> o + 5,
     c1_offset |-> <<50, 50>>, c2_offset |-> <<-50, -50>>, status |-> "only"]

\* MainWindow.on_mouse_press of all.py: a click on an empty place
OnMousePress(p) ==
    /\ app = "all"
    /\ adds < MaxAdds
    /\ ItemAt(p) = {}
    /\ LET o == nextId
           obj == NewPointObj(o, p)
           pos1 == pos @@ (obj.point :> <<obj.x, obj.y>>)
                       @@ (obj.c1 :> <<obj.x - 50, obj.y - 50>>)
                       @@ (obj.c2 :> <<obj.x + 50, obj.y + 50>>)
           objs == pointObj @@ (o :> obj)
           vis0 == visible @@ [i \in (o + 1)..(o + 5) |-> TRUE]
           live == {points[j] : j \in 1..Len(points)} \cup {o}
       IN  /\ pos' = pos1
           /\ lineItem' = lineItem @@ (obj.c1_line :> NewLine(obj.point, obj.c1, pos1))
                                   @@ (obj.c2_line :> NewLine(obj.point, obj.c2, pos1))
           /\ scene' = scene \cup {obj.c1_line, obj.c1, obj.c2_line, obj.c2, obj.point}
           /\ pointObj' = [q \in DOMAIN objs |->
                             IF q \in live
                             THEN [objs[q] EXCEPT !.status = StatusAfterAdd(points, q, o)]
                             ELSE objs[q]]
           /\ visible' = [i \in DOMAIN vis0 |->
                            LET own == {q \in live : i \in {objs[q].c1, objs[q].c1_line,
                                                             objs[q].c2, objs[q].c2_line}}
                            IN  IF own = {} THEN vis0[i]
                                ELSE LET q == CHOOSE q \in own : TRUE
                                     IN  DisplayControlPoint(i, objs[q],
                                                             StatusAfterAdd(points, q, o))]
           /\ points' = Append(points, o)
           /\ nextId' = nextId + 6
    /\ err' = "none"
    /\ adds' = adds + 1
    /\ last' = [op |-> "add", id |-> nextId, p |-> p, idx |-> Len(points),
                n |-> Len(points), again |-> FALSE]
    /\ UNCHANGED <<app, segments, is_anchor, curveItem, connected, moves>>

\* Point.cleanup: the five items leave the scene
Cleanup(sc, o) == sc \ {o.point, o.c1, o.c1_line, o.c2, o.c2_line}

\* Point.on_double_click -> MainWindow.delete_point: a double click on the anchor
\* of Point o, which is in the scene
DeletePoint(o) ==
    /\ app = "all"
    /\ o \in DOMAIN pointObj
    /\ pointObj[o].point \in scene
    /\ scene' = Cleanup(scene, pointObj[o])
    /\ points' = RemoveFirst(points, o)
    /\ err' = "none"
    /\ last' = [op |-> "remove", id |-> 0, p |-> <<0, 0>>,
                idx |-> IndexOf(points, o) - 1, n |-> Len(points), again |-> FALSE]
    /\ UNCHANGED <<app, segments, pos, is_anchor, curveItem, lineItem, connected,
                   pointObj, visible, nextId, adds, moves>>

\* Point.update_lines
UpdateLinesOf(o, ps, ln) ==
    [l \in DOMAIN ln |-> IF l \in {o.c1_line, o.c2_line} THEN UpdateLine(ln[l], ps) ELSE ln[l]]

\* Point.update_point: both handles go to point.pos() minus their stored offset
UpdatePoint(o, ps) ==
    [ps EXCEPT ![o.c1] = ItemChangeResult(<<ps[o.point][1] - o.c1_offset[1],
                                            ps[o.point][2] - o.c1_offset[2]>>),
               ![o.c2] = ItemChangeResult(<<ps[o.point][1] - o.c2_offset[1],
                                            ps[o.point][2] - o.c2_offset[2]>>)]

\* A drag of the anchor of Point o to p: AnchorPoint.setPos(p).  The moved signal
\* runs update_point while point.pos() is still the old position.
MoveAnchor(o, p) ==
    /\ app = "all"
    /\ o \in DOMAIN pointObj
    /\ pointObj[o].point \in scene
    /\ moves < MaxMoves
    /\ LET obj == pointObj[o]
       IN  IF pos[obj.point] = p
           THEN UNCHANGED <<pos, lineItem>>
           ELSE LET pos1 == UpdatePoint(obj, pos)
                IN  /\ lineItem' = UpdateLinesOf(obj, pos1, lineItem)
                    /\ pos' = [pos1 EXCEPT ![obj.point] = ItemChangeResult(p)]
    /\ moves' = moves + 1
    /\ err' = "none"
    /\ last' = [op |-> "move", id |-> pointObj[o].point, p |-> p, idx |-> 0,
                n |-> Len(points),
                again |-> last.op = "move" /\ last.id = pointObj[o].point /\ last.p = p]
    /\ UNCHANGED <<app, points, segments, scene, is_anchor, curveItem, connected,
                   pointObj, visible, nextId, adds>>

\* The Point object a ControlPoint c belongs to
OwnerOf(c) == CHOOSE o \in DOMAIN pointObj : c \in {pointObj[o].c1, pointObj[o].c2}

\* c is a ControlPoint the mouse can reach: in the scene and visible
IsHandle(c) ==
    /\ c \in scene
    /\ \E o \in DOMAIN pointObj : c \in {pointObj[o].c1, pointObj[o].c2}
    /\ visible[c]

\* A drag of the handle c to p: ControlPoint.setPos(p).  The moved signal runs
\* update_lines while c.pos() is still the old position.
MoveControl(c, p) ==
    /\ app = "all"
    /\ IsHandle(c)
    /\ moves < MaxMoves
    /\ IF pos[c] = p
       THEN UNCHANGED <<pos, lineItem>>
       ELSE /\ lineItem' = UpdateLinesOf(pointObj[OwnerOf(c)], pos, lineItem)
            /\ pos' = [pos EXCEPT ![c] = ItemChangeResult(p)]
    /\ moves' = moves + 1
    /\ err' = "none"
    /\ last' = [op |-> "move", id |-> c, p |-> p, idx |-> 0, n |-> Len(points),
                again |-> last.op = "move" /\ last.id = c /\ last.p = p]
    /\ UNCHANGED <<app, points, segments, scene, is_anchor, curveItem, connected,
                   pointObj, visible, nextId, adds>>

\* Mutant of StoredOffset: the difference taken the other way round
StoredOffsetReversed(ps, o, c) == <<ps[c][1] - ps[o.point][1], ps[c][2] - ps[o.point][2]>>

\* Point.update_control_point_1 / _2: the offset is point.pos() - c.pos()
StoredOffset(ps, o, c) == <<ps[o.point][1] - ps[c][1], ps[o.point][2] - ps[c][2]>>

\* ControlPoint.mouseReleaseEvent: the left button is released over the handle c
MouseRelease(c) ==
    /\ app = "all"
    /\ IsHandle(c)
    /\ LET o == OwnerOf(c)
           obj == pointObj[o]
       IN  /\ pointObj' = [pointObj EXCEPT ![o] =
                             IF c = obj.c1
                             THEN [obj EXCEPT !.c1_offset = StoredOffset(pos, obj, c)]
                             ELSE [obj EXCEPT !.c2_offset = StoredOffset(pos, obj, c)]]
           /\ lineItem' = UpdateLinesOf(obj, pos, lineItem)
    /\ err' = "none"
    /\ last' = [op |-> "release", id |-> 0, p |-> <<0, 0>>, idx |-> 0, n |-> Len(points),
                again |-> FALSE]
    /\ UNCHANGED <<app, points, segments, scene, pos, is_anchor, curveItem, connected,
                   visible, nextId, adds, moves>>

\* ------------------------------------------------------------ the programs

InitMulti ==
    /\ app = "multi"
    /\ points = <<>>
    /\ segments = <<>>
    /\ scene = {}
    /\ pos = <<>>
    /\ is_anchor = <<>>
    /\ curveItem = <<>>
    /\ lineItem = <<>>
    /\ connected = {}
    /\ pointObj = <<>>
    /\ visible = <<>>
    /\ nextId = 1
    /\ err = "none"
    /\ last = NoCall
    /\ adds = 0
    /\ moves = 0

\* all.py MainWindow.__init__: no points, an empty scene
InitAll ==
    /\ app = "all"
    /\ points = <<>>
    /\ segments = <<>>
    /\ scene = {}
    /\ pos = <<>>
    /\ is_anchor = <<>>
    /\ curveItem = <<>>
    /\ lineItem = <<>>
    /\ connected = {}
    /\ pointObj = <<>>
    /\ visible = <<>>
    /\ nextId = 1
    /\ err = "none"
    /\ last = NoCall
    /\ adds = 0
    /\ moves = 0

\* self.py MainWindow.__init__: the four points 1..4, the two lines, the curve
SelfPos == <<<<200, 400>>, <<225, 200>>, <<600, 400>>, <<575, 200>>>>

InitSelf ==
    /\ app = "self"
    /\ points = <<>>
    /\ segments = <<[curve |-> 7, start_point |-> 1, control_one |-> 2,
                     control_two |-> 4, end_point |-> 3, line_one |-> 5, line_two |-> 6]>>
    /\ scene = 1..7
    /\ pos = SelfPos
    /\ is_anchor = <<>>
    /\ curveItem = (7 :> NewCurve(1, 2, 4, 3, SelfPos))
    /\ lineItem = (5 :> NewLine(1, 2, SelfPos)) @@ (6 :> NewLine(3, 4, SelfPos))
    /\ connected = 1..4
    /\ pointObj = <<>>
    /\ visible = <<>>
    /\ nextId = 8
    /\ err = "none"
    /\ last = NoCall
    /\ adds = 0
    /\ moves = 0

Init == InitMulti \/ InitAll \/ InitSelf

\* multi.py: clicks on empty places, double clicks on anchors, drags
NextMulti ==
    \/ \E p \in ClickPositions : AddPoint(p)
    \/ \E a \in DOMAIN is_anchor : RemovePoint(a)
    \/ \E i \in scene, p \in MoveTargets : MovePoint(i, p)

\* all.py: clicks on empty places, double clicks on anchors, drags, button releases
NextAll ==
    \/ \E p \in ClickPositions : OnMousePress(p)
    \/ \E o \in DOMAIN pointObj : DeletePoint(o)
    \/ \E o \in DOMAIN pointObj, p \in MoveTargets : MoveAnchor(o, p)
    \/ \E c \in scene, p \in MoveTargets : MoveControl(c, p)
    \/ \E c \in scene : MouseRelease(c)

Next == NextMulti \/ NextAll

\* The three programs
Spec == Init /\ [][Next]_vars

\* The chain editor alone
SpecMulti == InitMulti /\ [][NextMulti]_vars

\* The role-tracking point editor alone
SpecAll == InitAll /\ [][NextAll]_vars

\* ------------------------------------------------------------------ claims

\* C1: in the chain editor, after any sequence of add_point and remove_point calls
\* from the empty chain, the number of segments is max(number of anchors - 1, 0).
C1_SegmentCount == app = "multi" => Len(segments) = Max(Len(points) - 1, 0)

\* An interior anchor of three has just been removed: two segments became one.
C1_Witness ==
    /\ app = "multi"
    /\ last.op = "remove" /\ last.n = 3 /\ last.idx = 1
    /\ Len(points) = 2 /\ Len(segments) = 1

\* C2: in the chain editor the segment at position i starts at anchor i and ends at
\* anchor i+1: the segment list is the consecutive-pair chain of the anchor list.
C2_ConsecutivePairs ==
    app = "multi" =>
        /\ [i \in 1..Len(segments) |-> <<segments[i].start_point, segments[i].end_point>>]
             = [i \in 1..Max(Len(points) - 1, 0) |-> <<points[i], points[i + 1]>>]
        /\ \A i \in 1..Len(segments) :
             /\ curveItem[segments[i].curve].start_point = segments[i].start_point
             /\ curveItem[segments[i].curve].end_point = segments[i].end_point

\* The first anchor of three has just been removed, and the segment that is left
\* joins the two anchors that are left.
C2_Witness ==
    /\ app = "multi"
    /\ last.op = "remove" /\ last.n = 3 /\ last.idx = 0 /\ err = "none"
    /\ Len(points) = 2 /\ Len(segments) = 1
    /\ segments[1].start_point = points[1] /\ segments[1].end_point = points[2]

\* C3: in the chain editor a removal request for the sole anchor of a 1-anchor chain
\* changes nothing (anchors, segments, positions, scene, geometry) and raises nothing.
C3_SoleAnchorRemovalNoOp ==
    [][(app = "multi" /\ last'.op = "remove" /\ Len(points) = 1 /\ last'.idx = 0)
         => (/\ UNCHANGED <<points, segments, pos, scene, curveItem, lineItem>>
             /\ Len(points') = 1
             /\ err' = "none")]_vars

\* The sole anchor's removal has just been requested.
C3_Witness ==
    /\ app = "multi"
    /\ last.op = "remove" /\ last.n = 1 /\ last.idx = 0
    /\ Len(points) = 1 /\ points[1] \in scene

\* C4: in the chain editor and in the role-tracking editor, once an anchor has been
\* added the anchor list never becomes empty again.
C4_NeverEmptyAgain == [][points # <<>> => points' # <<>>]_vars

\* C5 as stated: when an anchor is appended while a segment exists, the new anchor's
\* "before" handle (the end-side handle of the new segment) is created at
\* A2 - (S1.endHandle - A2), A2 the previous last anchor, S1 the previous last segment.
C5_BeforeHandleMirrored ==
    (app = "multi" /\ last.op = "add" /\ Len(segments) >= 2) =>
        LET S1 == segments[Len(segments) - 1]
            S2 == segments[Len(segments)]
            A2 == pos[points[Len(points) - 1]]
            h == pos[S1.control_two]
        IN  pos[S2.control_two] = <<A2[1] - (h[1] - A2[1]), A2[2] - (h[2] - A2[2])>>

\* C5 as amended: it is the start-side handle of the new segment (control_one, the
\* handle leaving A2) that is created at A2 - (S1.endHandle - A2), from the
\* positions current at creation; the new anchor's own end-side handle is created
\* at new anchor + (-50, +50).
C5_StartHandleMirrored ==
    (app = "multi" /\ last.op = "add" /\ Len(segments) >= 2) =>
        LET S1 == segments[Len(segments) - 1]
            S2 == segments[Len(segments)]
            A2 == pos[points[Len(points) - 1]]
            A3 == pos[points[Len(points)]]
            h == pos[S1.control_two]
        IN  /\ pos[S2.control_one] = <<A2[1] - (h[1] - A2[1]), A2[2] - (h[2] - A2[2])>>
            /\ pos[S2.control_two] = <<A3[1] - 50, A3[2] + 50>>

\* A third anchor has just been appended after S1's end handle had been dragged
\* away from the place it was created at.
C5_Witness ==
    /\ app = "multi"
    /\ last.op = "add" /\ Len(segments) = 2
    /\ pos[segments[1].control_two] \in MoveTargets
    /\ pos[segments[1].control_two] # pos[segments[2].control_one]

\* C6: when an anchor is appended to a chain with at least one anchor and no segment,
\* the new segment's start-side handle is at previous anchor + (50, 50) and its
\* end-side handle at new anchor + (-50, +50).
C6_DefaultOffsets ==
    (app = "multi" /\ last.op = "add" /\ last.n >= 1 /\ Len(segments) = 1) =>
        LET A1 == pos[points[Len(points) - 1]]
            A2 == pos[points[Len(points)]]
        IN  /\ pos[segments[1].control_one] = <<A1[1] + 50, A1[2] + 50>>
            /\ pos[segments[1].control_two] = <<A2[1] - 50, A2[2] + 50>>

\* An anchor has just been appended to a chain that removals had reduced to one
\* anchor, which had been dragged.
C6_Witness ==
    /\ app = "multi"
    /\ last.op = "add" /\ last.n = 1 /\ Len(segments) = 1
    /\ Cardinality(DOMAIN is_anchor) = 3
    /\ pos[points[1]] \in MoveTargets

C8_BoundaryRemoval ==
    [][(/\ app = "multi"
        /\ last'.op = "remove" /\ err' = "none"
        /\ Len(points) >= 2
        /\ last'.idx \in {0, Len(points) - 1})
         => LET k == last'.idx
                gone == IF k = 0 THEN segments[1] ELSE segments[Len(segments)]
            IN  /\ points' = RemoveAt(points, k + 1)
                /\ segments' = IF k = 0 THEN Tail(segments)
                               ELSE SubSeq(segments, 1, Len(segments) - 1)
                /\ scene' = scene \ (SegmentItems(gone) \cup {points[k + 1]})
                /\ SegmentItems(gone) \cup {points[k + 1]} \subseteq scene
                /\ pos' = pos]_vars

\* The first anchor of three has just been removed; the segment that is left keeps
\* its handle on the new first anchor in the scene.
C8_Witness ==
    /\ app = "multi"
    /\ last.op = "remove" /\ last.n = 3 /\ last.idx = 0 /\ err = "none"
    /\ Len(segments) = 1
    /\ segments[1].start_point = points[1]
    /\ segments[1].control_one \in scene

\* C9: once an operation has completed, every segment's cubic and every guide line's
\* two endpoints are the current positions of their defining points.
C9_GeometryCurrent ==
    /\ \A i \in 1..Len(segments) :
         LET s == segments[i]
         IN  /\ curveItem[s.curve].path = <<pos[s.start_point], pos[s.control_one],
                                            pos[s.control_two], pos[s.end_point]>>
             /\ lineItem[s.line_one].line = <<pos[s.start_point], pos[s.control_one]>>
             /\ lineItem[s.line_two].line = <<pos[s.end_point], pos[s.control_two]>>
    /\ app = "all" =>
         \A j \in 1..Len(points) :
             LET o == pointObj[points[j]]
             IN  /\ lineItem[o.c1_line].line = <<pos[o.point], pos[o.c1]>>
                 /\ lineItem[o.c2_line].line = <<pos[o.point], pos[o.c2]>>

\* C10: a move of a point to p that repeats the move before it (same point, same p)
\* leaves the renderable geometry as the first one left it: positions, cubics,
\* guide lines and stored offsets.
C10_MoveIdempotent ==
    [][(last.op = "move" /\ last'.op = "move" /\ last'.again)
         => UNCHANGED <<pos, curveItem, lineItem, pointObj, scene, visible>>]_vars

\* A point that update_graphics listens to has just been moved to the same place
\* twice in a row.
C10_Witness ==
    /\ last.op = "move" /\ last.again
    /\ last.id \in connected
    /\ pos[last.id] = last.p
    /\ Len(segments) >= 1

\* C11: in the role-tracking editor, after a handle was dragged and the drag ended
\* (the stored offset is anchor - handle), a move of its anchor by D leaves the
\* handle at its old position + D, so that handle = anchor - stored offset holds
\* with the anchor's new position.
C11_HandleFollowsAnchor ==
    [][(/\ app = "all"
        /\ last.op = "release" /\ last'.op = "move"
        /\ \E j \in 1..Len(points) : pointObj[points[j]].point = last'.id)
         => \A j \in 1..Len(points) :
              LET o == pointObj[points[j]]
                  D == <<pos'[o.point][1] - pos[o.point][1],
                         pos'[o.point][2] - pos[o.point][2]>>
              IN  (o.point = last'.id) =>
                    /\ (o.c1_offset = StoredOffset(pos, o, o.c1)) =>
                         /\ pos'[o.c1] = Vec(pos[o.c1], D[1], D[2])
                         /\ pos'[o.c1] = <<pos'[o.point][1] - o.c1_offset[1],
                                           pos'[o.point][2] - o.c1_offset[2]>>
                    /\ (o.c2_offset = StoredOffset(pos, o, o.c2)) =>
                         /\ pos'[o.c2] = Vec(pos[o.c2], D[1], D[2])
                         /\ pos'[o.c2] = <<pos'[o.point][1] - o.c2_offset[1],
                                           pos'[o.point][2] - o.c2_offset[2]>>]_vars

\* The role an anchor has by its place in the list: "only" in a chain of one,
\* else "first" at index 0, "last" at the final index, "center" elsewhere.
RoleByIndex(j, n) ==
    IF n = 1 THEN "only"
    ELSE IF j = 1 THEN "first"
    ELSE IF j = n THEN "last"
    ELSE "center"

\* C12: in the role-tracking editor, after every insertion and every removal each
\* anchor's stored role is the role derived from its current index.
C12_RolesFollowIndex ==
    app = "all" =>
        \A j \in 1..Len(points) :
            pointObj[points[j]].status = RoleByIndex(j, Len(points))

\* C13: in the role-tracking editor, whenever the chain has exactly one anchor,
\* that anchor has no visible handle and no visible guide line.
C13_SoleAnchorHandlesHidden ==
    (app = "all" /\ Len(points) = 1) =>
        LET o == pointObj[points[1]]
        IN  \A i \in {o.c1, o.c2, o.c1_line, o.c2_line} : ~visible[i]

\* C14: in the chain editor a removal request for something that is not a current
\* anchor fails with an error (list.index's ValueError, the NotFound of the spec)
\* at every chain size and leaves anchors, segments and scene as they were; the
\* only removal request that silently does nothing is the one for the last
\* remaining anchor.
C14_NotFoundSurfaced ==
    [][(app = "multi" /\ last'.op = "remove")
         => /\ (last'.idx < 0) =>
                 /\ err' = "ValueError"
                 /\ UNCHANGED <<points, segments, scene>>
            /\ (err' = "none" /\ UNCHANGED <<points, segments, scene>>) =>
                 (Len(points) = 1 /\ last'.idx = 0)]_vars

\* C15: in the chain editor, after any sequence of add_point and remove_point calls,
\* every handle, guide line and curve in the scene belongs to a segment of the
\* segment list, every listed segment has all its items in the scene, every
\* segment's start and end anchors are in the anchor list (and in the scene), and
\* removed anchors and the items of deleted segments are out of the scene, where no
\* mouse event reaches them.
C15_NoOrphans ==
    app = "multi" =>
        LET anchors == {points[j] : j \in 1..Len(points)}
            owned == UNION {SegmentItems(segments[i]) : i \in 1..Len(segments)}
        IN  /\ scene \ anchors \subseteq owned
            /\ owned \subseteq scene
            /\ anchors \subseteq scene
            /\ \A i \in 1..Len(segments) :
                 /\ segments[i].start_point \in anchors
                 /\ segments[i].end_point \in anchors
            /\ \A a \in DOMAIN is_anchor \ anchors : a \notin scene
            /\ \A i \in DOMAIN pos \cup DOMAIN curveItem \cup DOMAIN lineItem :
                 (i \notin anchors /\ i \notin owned) => i \notin scene

\* An anchor and the items of a deleted segment are out of the scene while a
\* segment with its items is still in the list.
C15_Witness ==
    /\ app = "multi"
    /\ last.op = "remove" /\ err = "none"
    /\ Len(segments) >= 1
    /\ \E a \in DOMAIN is_anchor : a \notin scene
    /\ \E h \in DOMAIN pos \ DOMAIN is_anchor : h \notin scene
    /\ \E l \in DOMAIN lineItem : l \notin scene
    /\ \E c \in DOMAIN curveItem : c \notin scene

\* C16: in the chain editor add_point puts the new anchor at the end of the anchor
\* list and raises nothing; the existing anchors keep their order, the existing
\* segments their places in the segment list, every existing anchor and handle its
\* position, and at most one segment, the new last one, is created with its two
\* handles.
C16_AddAppends ==
    [][(app = "multi" /\ last'.op = "add")
         => LET created == DOMAIN pos' \ DOMAIN pos
            IN  /\ points' = Append(points, last'.id)
                /\ last'.id \notin DOMAIN pos
                /\ err' = "none"
                /\ Len(segments') \in {Len(segments), Len(segments) + 1}
                /\ SubSeq(segments', 1, Len(segments)) = segments
                /\ \A i \in DOMAIN pos : pos'[i] = pos[i]
                /\ IF Len(segments') = Len(segments)
                   THEN created = {last'.id}
                   ELSE LET new == segments'[Len(segments')]
                        IN  /\ new.control_one # new.control_two
                            /\ created = {last'.id, new.control_one, new.control_two}
                            /\ new.end_point = last'.id]_vars

\* A third anchor has just been appended to a chain whose first anchor had been
\* dragged: the chain grew by one segment.
C16_Witness ==
    /\ app = "multi"
    /\ last.op = "add" /\ last.n = 2
    /\ Len(points) = 3 /\ points[3] = last.id
    /\ Len(segments) = 2
    /\ pos[points[1]] \in MoveTargets

\* C17: in the chain editor a move of any point, anchor or handle, changes the
\* position of that point only: handles do not follow their anchor, a mirrored
\* handle does not follow the handle it was mirrored from, and the anchor list and
\* the segment list stay as they were.
C17_MoveMovesOnePoint ==
    [][(app = "multi" /\ last'.op = "move")
         => /\ DOMAIN pos' = DOMAIN pos
            /\ pos'[last'.id] = last'.p
            /\ \A i \in DOMAIN pos \ {last'.id} : pos'[i] = pos[i]
            /\ UNCHANGED <<points, segments, scene>>]_vars

\* The anchor in the middle of a chain of three, which carries the end handle of
\* the first segment and its mirror image, has just been dragged away: both handles
\* stand where they were created.
C17_Witness ==
    /\ app = "multi"
    /\ last.op = "move" /\ Len(points) = 3 /\ Len(segments) = 2
    /\ last.id = points[2]
    /\ pos[points[2]] = last.p
    /\ pos[points[2]] # <<300, 100>>
    /\ pos[segments[1].control_two] = <<250, 150>>
    /\ pos[segments[2].control_one] = <<350, 50>>

\* C18: a move of a point P recomputes the geometry that depends on P and nothing
\* else: the cubic and the two guide lines of every segment that does not reference
\* P are the same after the move as before it.
C18_OnlyDependentGeometry ==
    [][(app \in {"multi", "self"} /\ last'.op = "move")
         => \A i \in 1..Len(segments) :
              LET s == segments[i]
              IN  (last'.id \notin {s.start_point, s.control_one,
                                    s.control_two, s.end_point})
                    => /\ curveItem'[s.curve] = curveItem[s.curve]
                       /\ lineItem'[s.line_one] = lineItem[s.line_one]
                       /\ lineItem'[s.line_two] = lineItem[s.line_two]]_vars

\* C19: in the chain editor, in every reachable state each handle is referenced by
\* exactly one segment and exactly one guide line; each anchor is referenced by two
\* segments and two guide lines when interior, by one of each at either end of a
\* chain of two or more, by none when alone; and there are twice as many handles
\* as segments.
C19_ReferenceCounts ==
    app = "multi" =>
        LET n == Len(points)
            handles == {i \in scene \cap DOMAIN pos : i \notin DOMAIN is_anchor}
            lines == scene \cap DOMAIN lineItem
            SegsOfHandle(h) == {i \in 1..Len(segments) :
                                  h \in {segments[i].control_one, segments[i].control_two}}
            SegsOfAnchor(a) == {i \in 1..Len(segments) :
                                  a \in {segments[i].start_point, segments[i].end_point}}
            LinesOf(i) == {l \in lines : i \in {lineItem[l].start_point, lineItem[l].end_point}}
            Degree(j) == IF n = 1 THEN 0 ELSE IF j = 1 \/ j = n THEN 1 ELSE 2
        IN  /\ \A h \in handles :
                 /\ Cardinality(SegsOfHandle(h)) = 1
                 /\ Cardinality(LinesOf(h)) = 1
            /\ \A j \in 1..n :
                 /\ Cardinality(SegsOfAnchor(points[j])) = Degree(j)
                 /\ Cardinality(LinesOf(points[j])) = Degree(j)
            /\ Cardinality(handles) = 2 * Len(segments)

\* A chain of three after some move: four handles, and the interior anchor carries
\* two segments and two guide lines.
C19_Witness ==
    /\ app = "multi"
    /\ Len(points) = 3 /\ Len(segments) = 2
    /\ moves >= 1
    /\ segments[1].end_point = points[2] /\ segments[2].start_point = points[2]
    /\ Cardinality({i \in scene \cap DOMAIN pos : i \notin DOMAIN is_anchor}) = 4
    /\ Cardinality({l \in scene \cap DOMAIN lineItem :
                      points[2] \in {lineItem[l].start_point, lineItem[l].end_point}}) = 2

\* C20: in the role-tracking editor, in every reachable state the visibility of an
\* anchor's two handles and guide lines is a function of its stored role: both
\* hidden for "only", both visible for "center", exactly one handle hidden for
\* "first" (c2) and exactly the other one for "last" (c1); a guide line is visible
\* exactly when its handle is.
C20_VisibilityByRole ==
    app = "all" =>
        \A j \in 1..Len(points) :
            LET o == pointObj[points[j]]
            IN  /\ o.status \in {"only", "first", "center", "last"}
                /\ o.status = "only" => (~visible[o.c1] /\ ~visible[o.c2])
                /\ o.status = "center" => (visible[o.c1] /\ visible[o.c2])
                /\ o.status = "first" => (visible[o.c1] /\ ~visible[o.c2])
                /\ o.status = "last" => (~visible[o.c1] /\ visible[o.c2])
                /\ visible[o.c1_line] = visible[o.c1]
                /\ visible[o.c2_line] = visible[o.c2]

\* The first anchor of three has been removed: the two that are left still carry
\* the roles "center" and "last" and show the handles of those roles.
C20_Witness ==
    /\ app = "all"
    /\ Len(points) = 2
    /\ pointObj[points[1]].status = "center"
    /\ pointObj[points[2]].status = "last"
    /\ visible[pointObj[points[1]].c1] /\ visible[pointObj[points[1]].c2]
    /\ ~visible[pointObj[points[2]].c1] /\ visible[pointObj[points[2]].c2]

\* C21: in the role-tracking editor, the end of a handle drag stores that handle's
\* offset as anchor position - handle position and changes no position and no
\* other offset; a newly created point has both handles at anchor position - stored
\* offset; a move of a handle that is not followed by the end of the drag leaves
\* the stored offsets as they were.
C21_OffsetStoredAtDragEnd ==
    [][(app = "all")
         => /\ (last'.op = "release") =>
                 /\ pos' = pos
                 /\ DOMAIN pointObj' = DOMAIN pointObj
                 /\ \E o \in DOMAIN pointObj :
                      \E side \in {1, 2} :
                        LET obj == pointObj[o]
                            c == IF side = 1 THEN obj.c1 ELSE obj.c2
                            off == <<pos[obj.point][1] - pos[c][1],
                                     pos[obj.point][2] - pos[c][2]>>
                        IN  /\ c \in scene /\ visible[c]
                            /\ pointObj' = [pointObj EXCEPT ![o] =
                                              IF side = 1
                                              THEN [obj EXCEPT !.c1_offset = off]
                                              ELSE [obj EXCEPT !.c2_offset = off]]
            /\ (last'.op = "add") =>
                 LET obj == pointObj'[last'.id]
                 IN  /\ last'.id \notin DOMAIN pointObj
                     /\ pos'[obj.c1] = <<pos'[obj.point][1] - obj.c1_offset[1],
                                         pos'[obj.point][2] - obj.c1_offset[2]>>
                     /\ pos'[obj.c2] = <<pos'[obj.point][1] - obj.c2_offset[1],
                                         pos'[obj.point][2] - obj.c2_offset[2]>>
                     /\ pos'[obj.c1] # pos'[obj.c2]
            /\ (last'.op = "move") =>
                 \A o \in DOMAIN pointObj :
                     /\ pointObj'[o].c1_offset = pointObj[o].c1_offset
                     /\ pointObj'[o].c2_offset = pointObj[o].c2_offset]_vars

\* The drag of a handle has just ended away from the place the handle was created
\* at: its offset is the new one, the other handle's offset the initial one.
C21_Witness ==
    /\ app = "all"
    /\ last.op = "release"
    /\ \E j \in 1..Len(points) :
         LET o == pointObj[points[j]]
         IN  /\ pos[o.c1] \in MoveTargets
             /\ o.c1_offset # <<50, 50>>
             /\ o.c1_offset = <<pos[o.point][1] - pos[o.c1][1],
                                pos[o.point][2] - pos[o.c1][2]>>
             /\ o.c2_offset = <<-50, -50>>
====
